---- MODULE Spec2Model ----
(***************************************************************************)
(* Tiled ground mesh builder of bevy-procedural-geometry (src/main.rs):    *)
(* setup_plane builds four folded quad tiles, plane_positions_and_uvs      *)
(* triangulates one tile and derives the texture coordinates.              *)
(*                                                                         *)
(* f32 values are fixed-point integers in units of 1/FP.  Every value the  *)
(* program computes is a multiple of 0.25, so the representation is exact  *)
(* on the program's own data.                                              *)
(***************************************************************************)
EXTENDS Integers, Sequences, FiniteSets

VARIABLES pc, tile, corners, positions, uvs, complete_positions,
          complete_uvs, mesh, call_args, call_ret

vars == <<pc, tile, corners, positions, uvs, complete_positions,
          complete_uvs, mesh, call_args, call_ret>>

(* ------------------------------ f32 ----------------------------------- *)

FP == 4

F(n) == n * FP

FMul(x, y) == (x * y) \div FP

FDiv(x, y) == (x * FP) \div y

Abs(x) == IF x < 0 THEN -x ELSE x

(* ------------------------------ Vec3 ---------------------------------- *)

Vec3(x, y, z) == [x |-> x, y |-> y, z |-> z]

into(v) == <<v.x, v.y, v.z>>

(* --------------------- constants of setup_plane ----------------------- *)

map_side_len == F(10)

min_x == -F(5)

tile_side_step == FDiv(FDiv(map_side_len, F(2)), F(2))

(* bound of the argument grid of the free-standing call *)
MaxCoord == 1

(* ---------------------- plane_positions_and_uvs ----------------------- *)

uv_calculate(coord, side_len, mn) == FDiv(coord + Abs(mn), side_len)

get_uv_unswapped(x, z, side_len, mn) ==
    <<uv_calculate(x, side_len, mn), uv_calculate(z, side_len, mn)>>

get_uv(x, z, side_len, mn) ==
    <<uv_calculate(z, side_len, mn), uv_calculate(x, side_len, mn)>>

plane_positions_and_uvs_reordered(a, b, c, d, side_len, mn) ==
    LET p == <<into(a), into(b), into(c), into(a), into(c), into(d)>>
    IN  [positions |-> p,
         uvs |-> [i \in 1..6 |-> get_uv(p[i][1], p[i][3], side_len, mn)]]

plane_positions_and_uvs(a, b, c, d, side_len, mn) ==
    LET p0 == <<>>
        u0 == <<>>
        p1 == Append(p0, into(a))
        u1 == Append(u0, get_uv(a.x, a.z, side_len, mn))
        p2 == Append(p1, into(b))
        u2 == Append(u1, get_uv(b.x, b.z, side_len, mn))
        p3 == Append(p2, into(c))
        u3 == Append(u2, get_uv(c.x, c.z, side_len, mn))
        p4 == Append(p3, into(c))
        u4 == Append(u3, get_uv(c.x, c.z, side_len, mn))
        p5 == Append(p4, into(d))
        u5 == Append(u4, get_uv(d.x, d.z, side_len, mn))
        p6 == Append(p5, into(a))
        u6 == Append(u5, get_uv(a.x, a.z, side_len, mn))
    IN  [positions |-> p6, uvs |-> u6]

(* --------------------------- setup_plane ------------------------------ *)

Quad(a, b, c, d) == [a |-> a, b |-> b, c |-> c, d |-> d]

BaseQuadRaisedD ==
    Quad(Vec3(tile_side_step, tile_side_step, -tile_side_step),
         Vec3(-tile_side_step, 0, -tile_side_step),
         Vec3(-tile_side_step, 0, tile_side_step),
         Vec3(tile_side_step, tile_side_step, tile_side_step))

BaseQuad ==
    Quad(Vec3(tile_side_step, tile_side_step, -tile_side_step),
         Vec3(-tile_side_step, 0, -tile_side_step),
         Vec3(-tile_side_step, 0, tile_side_step),
         Vec3(tile_side_step, 0, tile_side_step))

Tile1CornersNoLower(q) ==
    Quad(Vec3(q.a.x + FMul(tile_side_step, F(2)), q.a.y, q.a.z),
         Vec3(q.b.x + FMul(tile_side_step, F(2)), q.b.y + tile_side_step, q.b.z),
         Vec3(q.c.x + FMul(tile_side_step, F(2)), q.c.y, q.c.z),
         Vec3(q.d.x + FMul(tile_side_step, F(2)), q.d.y, q.d.z))

Tile1Corners(q) ==
    Quad(Vec3(q.a.x + FMul(tile_side_step, F(2)), q.a.y - tile_side_step, q.a.z),
         Vec3(q.b.x + FMul(tile_side_step, F(2)), q.b.y + tile_side_step, q.b.z),
         Vec3(q.c.x + FMul(tile_side_step, F(2)), q.c.y, q.c.z),
         Vec3(q.d.x + FMul(tile_side_step, F(2)), q.d.y, q.d.z))

Tile2CornersNoRaise(q) ==
    Quad(Vec3(q.a.x, q.a.y, q.a.z - FMul(tile_side_step, F(2))),
         Vec3(q.b.x, q.b.y - tile_side_step, q.b.z - FMul(tile_side_step, F(2))),
         Vec3(q.c.x, q.c.y, q.c.z - FMul(tile_side_step, F(2))),
         Vec3(q.d.x, q.d.y, q.d.z - FMul(tile_side_step, F(2))))

Tile2Corners(q) ==
    Quad(Vec3(q.a.x, q.a.y, q.a.z - FMul(tile_side_step, F(2))),
         Vec3(q.b.x, q.b.y - tile_side_step, q.b.z - FMul(tile_side_step, F(2))),
         Vec3(q.c.x, q.c.y + tile_side_step, q.c.z - FMul(tile_side_step, F(2))),
         Vec3(q.d.x, q.d.y, q.d.z - FMul(tile_side_step, F(2))))

Tile3CornersPlusX(q) ==
    Quad(Vec3(q.a.x + FMul(tile_side_step, F(2)), q.a.y, q.a.z),
         Vec3(q.b.x + FMul(tile_side_step, F(2)), q.b.y, q.b.z),
         Vec3(q.c.x + FMul(tile_side_step, F(2)), q.c.y - tile_side_step, q.c.z),
         Vec3(q.d.x + FMul(tile_side_step, F(2)), q.d.y + tile_side_step, q.d.z))

Tile3Corners(q) ==
    Quad(Vec3(q.a.x - FMul(tile_side_step, F(2)), q.a.y, q.a.z),
         Vec3(q.b.x - FMul(tile_side_step, F(2)), q.b.y, q.b.z),
         Vec3(q.c.x - FMul(tile_side_step, F(2)), q.c.y - tile_side_step, q.c.z),
         Vec3(q.d.x - FMul(tile_side_step, F(2)), q.d.y + tile_side_step, q.d.z))

(* the argument order of the call made for tile t: (a, b, c, d) for tiles *)
(* 0 and 2, (b, c, d, a) for tiles 1 and 3                                *)
CallArgsUnrotated(t, q) == <<q.a, q.b, q.c, q.d>>

CallArgsMirrored(t, q) ==
    IF t % 2 = 0 THEN <<q.a, q.b, q.c, q.d>> ELSE <<q.a, q.d, q.c, q.b>>

CallArgs(t, q) ==
    IF t % 2 = 0 THEN <<q.a, q.b, q.c, q.d>> ELSE <<q.b, q.c, q.d, q.a>>

concat_prepend(xs, ys) == ys \o xs

concat(xs, ys) == xs \o ys

(* ------------------------------ state --------------------------------- *)

Grid == {FMul(F(k), tile_side_step) : k \in 0..MaxCoord}

Points ==
    {Vec3(x, y, z) : x \in Grid, y \in {0, tile_side_step},
                     z \in {0, tile_side_step}}

NoReturn == [positions |-> <<>>, uvs |-> <<>>]

NoMesh == [inserted |-> FALSE, positions |-> <<>>, uvs |-> <<>>]

Init ==
    /\ pc = "call"
    /\ tile = 0
    /\ corners = BaseQuad
    /\ positions = <<>>
    /\ uvs = <<>>
    /\ complete_positions = <<>>
    /\ complete_uvs = <<>>
    /\ mesh = NoMesh
    /\ call_args \in Points \X Points \X Points \X Points
    /\ call_ret = NoReturn

(* lines 96, 106, 116, 126 *)
CallTile ==
    /\ pc = "call"
    /\ LET args == CallArgs(tile, corners)
           ret == plane_positions_and_uvs(args[1], args[2], args[3], args[4],
                                          map_side_len, min_x)
       IN  /\ positions' = ret.positions
           /\ uvs' = ret.uvs
    /\ pc' = "concat_positions"
    /\ UNCHANGED <<tile, corners, complete_positions, complete_uvs, mesh,
                   call_args, call_ret>>

(* lines 98, 108, 118, 128 *)
ConcatPositions ==
    /\ pc = "concat_positions"
    /\ complete_positions' = concat(complete_positions, positions)
    /\ pc' = "concat_uvs"
    /\ UNCHANGED <<tile, corners, positions, uvs, complete_uvs, mesh,
                   call_args, call_ret>>

(* lines 99, 109, 119, 129 *)
ConcatUvs ==
    /\ pc = "concat_uvs"
    /\ complete_uvs' = concat(complete_uvs, uvs)
    /\ pc' = "next"
    /\ UNCHANGED <<tile, corners, positions, uvs, complete_positions, mesh,
                   call_args, call_ret>>

(* lines 101-104 *)
Tile1 ==
    /\ pc = "next" /\ tile = 0
    /\ corners' = Tile1Corners(corners)
    /\ tile' = 1
    /\ pc' = "call"
    /\ UNCHANGED <<positions, uvs, complete_positions, complete_uvs, mesh,
                   call_args, call_ret>>

(* lines 111-114 *)
Tile2 ==
    /\ pc = "next" /\ tile = 1
    /\ corners' = Tile2Corners(corners)
    /\ tile' = 2
    /\ pc' = "call"
    /\ UNCHANGED <<positions, uvs, complete_positions, complete_uvs, mesh,
                   call_args, call_ret>>

(* lines 121-124 *)
Tile3 ==
    /\ pc = "next" /\ tile = 2
    /\ corners' = Tile3Corners(corners)
    /\ tile' = 3
    /\ pc' = "call"
    /\ UNCHANGED <<positions, uvs, complete_positions, complete_uvs, mesh,
                   call_args, call_ret>>

(* lines 131-134 *)
InsertMesh ==
    /\ pc = "next" /\ tile = 3
    /\ mesh' = [inserted |-> TRUE, positions |-> complete_positions,
                uvs |-> complete_uvs]
    /\ pc' = "done"
    /\ UNCHANGED <<tile, corners, positions, uvs, complete_positions,
                   complete_uvs, call_args, call_ret>>

(* plane_positions_and_uvs applied to arbitrary corners *)
Call ==
    /\ call_ret = NoReturn
    /\ call_ret' = plane_positions_and_uvs(call_args[1], call_args[2],
                       call_args[3], call_args[4], map_side_len, min_x)
    /\ UNCHANGED <<pc, tile, corners, positions, uvs, complete_positions,
                   complete_uvs, mesh, call_args>>

Next ==
    \/ CallTile
    \/ ConcatPositions
    \/ ConcatUvs
    \/ Tile1
    \/ Tile2
    \/ Tile3
    \/ InsertMesh
    \/ Call

Spec == Init /\ [][Next]_vars

(* ---------------------------- properties ------------------------------ *)

(* the mesh buffer handed over at lines 133-134, by tile: the six entries *)
(* of tile k and the four corners they were built from, in call order     *)
Block(k) == SubSeq(mesh.positions, 6 * k + 1, 6 * k + 6)

TileArg(k, n) == Block(k)[IF n = 4 THEN 5 ELSE n]

XZ(k) == {<<Block(k)[i][1], Block(k)[i][3]>> : i \in 1..6}

MinOf(S) == CHOOSE m \in S : \A n \in S : m <= n

X0(k) == MinOf({p[1] : p \in XZ(k)})

Z0(k) == MinOf({p[2] : p \in XZ(k)})

Tiles == 0..3

Triangles == {<<mesh.positions[3 * t + 1], mesh.positions[3 * t + 2],
                mesh.positions[3 * t + 3]>> : t \in 0..7}

(* y component of (p1 - p0) x (p2 - p0) *)
CrossY(tri) ==
    (tri[2][3] - tri[1][3]) * (tri[3][1] - tri[1][1])
    - (tri[2][1] - tri[1][1]) * (tri[3][3] - tri[1][3])

(* C1: for any four corners (a, b, c, d) the returned positions are       *)
(* exactly [a, b, c, c, d, a]: triangle 1 = (a, b, c), triangle 2 =       *)
(* (c, d, a), sharing the a-c edge.                                       *)
C1_WindingOrder ==
    call_ret # NoReturn =>
        call_ret.positions =
            <<into(call_args[1]), into(call_args[2]), into(call_args[3]),
              into(call_args[3]), into(call_args[4]), into(call_args[1])>>

C1_Witness ==
    /\ call_ret # NoReturn
    /\ Cardinality({call_args[i] : i \in 1..4}) = 4

(* C2: for each of the 24 indices of the mesh buffer the UV entry is      *)
(* derived from the position entry at the same index with the axes        *)
(* swapped: u = (z + |min_x|) / map_side_len, v = (x + |min_x|) /         *)
(* map_side_len (exactly: no rounding occurs), whatever y is.             *)
C2_UvFromPosition ==
    pc = "done" =>
        /\ Len(mesh.positions) = 24
        /\ Len(mesh.uvs) = 24
        /\ \A i \in 1..24 :
              /\ mesh.uvs[i][1] * map_side_len
                    = (mesh.positions[i][3] + Abs(min_x)) * FP
              /\ mesh.uvs[i][2] * map_side_len
                    = (mesh.positions[i][1] + Abs(min_x)) * FP

C2_Witness ==
    /\ pc = "done"
    /\ \E i \in 1..24 :
          /\ mesh.positions[i][1] # mesh.positions[i][3]
          /\ mesh.positions[i][2] # 0
          /\ mesh.uvs[i] = <<1, 3>>

(* C3: after k tiles have been appended both buffers have length 6k, the  *)
(* six entries of each tile sit contiguously in tile order behind those   *)
(* of the earlier tiles, and the mesh receives 24 positions and 24 UVs.   *)
RECURSIVE CornersOf(_)
CornersOf(k) ==
    IF k = 0 THEN BaseQuad
    ELSE IF k = 1 THEN Tile1Corners(CornersOf(0))
    ELSE IF k = 2 THEN Tile2Corners(CornersOf(1))
    ELSE Tile3Corners(CornersOf(2))

TileReturn ==
    [k \in 0..3 |->
        LET args == CallArgs(k, CornersOf(k))
        IN  plane_positions_and_uvs(args[1], args[2], args[3], args[4],
                                    map_side_len, min_x)]

PosTiles == IF pc \in {"call", "concat_positions"} THEN tile ELSE tile + 1

UvTiles == IF pc \in {"call", "concat_positions", "concat_uvs"} THEN tile ELSE tile + 1

C3_SixPerTileInOrder ==
    /\ Len(complete_positions) = 6 * PosTiles
    /\ Len(complete_uvs) = 6 * UvTiles
    /\ \A k \in 0..(PosTiles - 1) :
          SubSeq(complete_positions, 6 * k + 1, 6 * k + 6) = TileReturn[k].positions
    /\ \A k \in 0..(UvTiles - 1) :
          SubSeq(complete_uvs, 6 * k + 1, 6 * k + 6) = TileReturn[k].uvs
    /\ pc \in {"call", "next"} => Len(complete_positions) = Len(complete_uvs)
    /\ pc = "done" => Len(mesh.positions) = 24 /\ Len(mesh.uvs) = 24

C3_Witness ==
    /\ pc = "next" /\ tile = 2
    /\ Len(complete_positions) = 18
    /\ Len(complete_uvs) = 18

(* C4: the x/z projections of the four tiles are axis-aligned squares of  *)
(* side 2 * tile_side_step, pairwise non-overlapping, whose union is one  *)
(* full square of side map_side_len.                                      *)
TileSide == FMul(tile_side_step, F(2))

C4_FootprintsTileSquare ==
    pc = "done" =>
        /\ \A k \in Tiles :
              XZ(k) = {X0(k), X0(k) + TileSide} \X {Z0(k), Z0(k) + TileSide}
        /\ \A i, j \in Tiles :
              i # j =>
                 \/ X0(i) + TileSide <= X0(j)
                 \/ X0(j) + TileSide <= X0(i)
                 \/ Z0(i) + TileSide <= Z0(j)
                 \/ Z0(j) + TileSide <= Z0(i)
        /\ LET bx == MinOf({X0(k) : k \in Tiles})
               bz == MinOf({Z0(k) : k \in Tiles})
           IN  /\ {<<X0(k), Z0(k)>> : k \in Tiles}
                     = {bx, bx + TileSide} \X {bz, bz + TileSide}
               /\ 2 * TileSide = map_side_len

C4_Witness ==
    /\ pc = "done"
    /\ Cardinality({<<X0(k), Z0(k)>> : k \in Tiles}) = 4

(* C5: every emitted vertex has x and z in [min_x, min_x + map_side_len], *)
(* min_x is the minimum x and the minimum z emitted, and every UV         *)
(* component lies in [0, 1].                                              *)
C5_FootprintMatchesMapParameters ==
    pc = "done" =>
        /\ \A i \in 1..Len(mesh.positions) :
              /\ mesh.positions[i][1] >= min_x
              /\ mesh.positions[i][1] <= min_x + map_side_len
              /\ mesh.positions[i][3] >= min_x
              /\ mesh.positions[i][3] <= min_x + map_side_len
        /\ min_x = MinOf({mesh.positions[i][1] : i \in 1..Len(mesh.positions)})
        /\ min_x = MinOf({mesh.positions[i][3] : i \in 1..Len(mesh.positions)})
        /\ \A i \in 1..Len(mesh.uvs) :
              /\ mesh.uvs[i][1] >= 0 /\ mesh.uvs[i][1] <= F(1)
              /\ mesh.uvs[i][2] >= 0 /\ mesh.uvs[i][2] <= F(1)

(* C6: all 8 triangles are wound the same way: the y component of         *)
(* (p1 - p0) x (p2 - p0) is positive for every triangle.                  *)
C6_ConsistentWinding ==
    pc = "done" => \A tri \in Triangles : CrossY(tri) > 0

C6_Witness ==
    /\ pc = "done"
    /\ Cardinality(Triangles) = 8

(* C7: the four corners of every tile are not coplanar, and two tiles     *)
(* that share a footprint edge have fold diagonals (first to third call   *)
(* argument) running in different x/z directions.                         *)
Det3(u, v, w) ==
    u[1] * (v[2] * w[3] - v[3] * w[2])
    - u[2] * (v[1] * w[3] - v[3] * w[1])
    + u[3] * (v[1] * w[2] - v[2] * w[1])

Minus(p, q) == <<p[1] - q[1], p[2] - q[2], p[3] - q[3]>>

Coplanar(k) ==
    Det3(Minus(TileArg(k, 2), TileArg(k, 1)),
         Minus(TileArg(k, 3), TileArg(k, 1)),
         Minus(TileArg(k, 4), TileArg(k, 1))) = 0

Fold(k) == Minus(TileArg(k, 3), TileArg(k, 1))

Adjacent(i, j) == i # j /\ Cardinality(XZ(i) \cap XZ(j)) = 2

C7_NonPlanarAlternatingFolds ==
    pc = "done" =>
        /\ \A k \in Tiles : ~Coplanar(k)
        /\ \A i, j \in Tiles :
              Adjacent(i, j) =>
                 Fold(i)[1] * Fold(j)[3] - Fold(i)[3] * Fold(j)[1] # 0

C7_Witness ==
    /\ pc = "done"
    /\ Cardinality({<<i, j>> \in Tiles \X Tiles : Adjacent(i, j)}) = 8

(* C8 as stated: in the base quad A and D share the raised y coordinate   *)
(* +tile_side_step, B and C sit at y = 0, A/D lie toward +x of B/C.       *)
TileZeroBound == tile = 0 /\ pc = "call"

C8_AandDRaised ==
    TileZeroBound =>
        /\ corners.a.y = tile_side_step
        /\ corners.d.y = tile_side_step
        /\ corners.b.y = 0
        /\ corners.c.y = 0
        /\ corners.a.x > corners.b.x /\ corners.a.x > corners.c.x
        /\ corners.d.x > corners.b.x /\ corners.d.x > corners.c.x

(* C8 amended: in the base quad only A has the raised y coordinate        *)
(* +tile_side_step; B, C and D sit at y = 0; A/D lie toward +x of B/C.    *)
C8_OnlyARaised ==
    TileZeroBound =>
        /\ corners.a.y = tile_side_step
        /\ corners.d.y = 0
        /\ corners.b.y = 0
        /\ corners.c.y = 0
        /\ corners.a.x > corners.b.x /\ corners.a.x > corners.c.x
        /\ corners.d.x > corners.b.x /\ corners.d.x > corners.c.x

C8_Witness ==
    /\ TileZeroBound
    /\ corners.a = Vec3(tile_side_step, tile_side_step, -tile_side_step)

(* C9: each tile-construction step translates all four corners by one     *)
(* tile width along one axis (+x, then -z, then -x), keeps the other      *)
(* horizontal coordinate, and changes the y of exactly two corners, one   *)
(* by +tile_side_step and one by -tile_side_step.                         *)
Names == {"a", "b", "c", "d"}

StepDx(t) == IF t = 1 THEN TileSide ELSE IF t = 3 THEN -TileSide ELSE 0

StepDz(t) == IF t = 2 THEN -TileSide ELSE 0

C9_Step ==
    tile' = tile + 1 =>
        /\ \A n \in Names :
              /\ corners'[n].x = corners[n].x + StepDx(tile')
              /\ corners'[n].z = corners[n].z + StepDz(tile')
        /\ Cardinality({n \in Names : corners'[n].y # corners[n].y}) = 2
        /\ Cardinality({n \in Names :
                           corners'[n].y = corners[n].y + tile_side_step}) = 1
        /\ Cardinality({n \in Names :
                           corners'[n].y = corners[n].y - tile_side_step}) = 1

C9_TranslateAndTiltTwo == [][C9_Step]_vars

C9_Witness ==
    /\ tile = 3
    /\ corners.d.y = tile_side_step
    /\ corners.c.y = 0

(* C10: emitted vertices with the same (x, z) have the same y, and every  *)
(* emitted y is 0 or tile_side_step.                                      *)
Emitted == {complete_positions[i] : i \in 1..Len(complete_positions)}

C10_ContinuousSurface ==
    \A p, q \in Emitted :
        /\ p[2] \in {0, tile_side_step}
        /\ (p[1] = q[1] /\ p[3] = q[3]) => p[2] = q[2]

C10_Witness ==
    /\ Len(complete_positions) = 24
    /\ \E i \in 1..6, j \in 19..24 :
          /\ complete_positions[i] = complete_positions[j]
          /\ complete_positions[i][2] = tile_side_step

====
